---------------------------- MODULE Spec2Model ----------------------------
(***************************************************************************)
(* A model of workshop01.cpp: the particle emitter, the integrator, the   *)
(* renderer's draw call, the shader loader with its hot-reload watcher    *)
(* and the frame loop that drives them.                                   *)
(*                                                                         *)
(* Numbers.  The program computes in IEEE-754 binary32 (`float').  A      *)
(* finite float is modelled by the pair <<m, e>> that stands for m * 2^e, *)
(* with m odd (or <<0, 0>> for zero) and |m| < 2^24.  Every operation     *)
(* below computes the exact result and rounds it to nearest, ties to      *)
(* even, as the hardware does; no operation is contracted.  Infinities,   *)
(* NaNs and subnormals lie outside the values the bounds let the model    *)
(* reach.  A 32-bit unsigned integer is the pair <<hi, lo>> of its 16-bit *)
(* halves.                                                                 *)
(***************************************************************************)
EXTENDS Integers, Sequences, FiniteSets, TLC

-----------------------------------------------------------------------------
(* binary32 arithmetic *)

Pow2(n) == 2 ^ n

Abs(n) == IF n < 0 THEN -n ELSE n

Sgn(n) == IF n < 0 THEN -1 ELSE 1

\* Number of binary digits of n >= 0 (0 for n = 0).
RECURSIVE BitLen(_)
BitLen(n) == IF n = 0 THEN 0 ELSE 1 + BitLen(n \div 2)

\* The canonical pair of m * 2^e: trailing zeros of m moved into e.
RECURSIVE F32Norm(_, _)
F32Norm(m, e) ==
    IF m = 0 THEN <<0, 0>>
    ELSE IF m % 2 = 0 THEN F32Norm(m \div 2, e + 1)
    ELSE <<m, e>>

F32Precision == 24

\* Round the magnitude (n + s) * 2^e, n >= 0, to 24 significant bits,
\* nearest, ties to even.  sticky says that the exact magnitude exceeds
\* n * 2^e by less than one unit of n; callers keep at least two bits
\* below the rounding position whenever it is set.
F32RoundMag(n, e, sticky) ==
    LET d == BitLen(n) - F32Precision
    IN  IF d <= 0 THEN F32Norm(n, e)
        ELSE LET q    == n \div Pow2(d)
                 rem  == n % Pow2(d)
                 half == Pow2(d - 1)
                 up   == \/ rem > half
                         \/ rem = half /\ sticky
                         \/ rem = half /\ ~sticky /\ q % 2 = 1
             IN  F32Norm(IF up THEN q + 1 ELSE q, e + d)

F32Neg(x) == <<-x[1], x[2]>>

F32Signed(sign, mag) == IF sign < 0 THEN F32Neg(mag) ELSE mag

F32Zero == <<0, 0>>

\* int -> float (|n| < 2^31)
F32FromInt(n) == F32Signed(Sgn(n), F32RoundMag(Abs(n), 0, FALSE))

\* x + y, rounded once.
F32Add(x, y) ==
    IF x[1] = 0 THEN y
    ELSE IF y[1] = 0 THEN x
    ELSE
    LET \* big: the operand of the larger exponent
        big   == IF x[2] >= y[2] THEN x ELSE y
        small == IF x[2] >= y[2] THEN y ELSE x
        d     == big[2] - small[2]
        bl    == BitLen(Abs(big[1]))
    IN  IF bl + d <= 29
        THEN \* both fit one integer: the sum is exact before rounding
             LET s == big[1] * Pow2(d) + small[1]
             IN  F32Signed(Sgn(s), F32RoundMag(Abs(s), small[2], FALSE))
        ELSE \* big dominates: keep it at 27 bits, shift small under it
             LET up     == 27 - bl
                 B      == Abs(big[1]) * Pow2(up)
                 sh     == d - up
                 sm     == Abs(small[1])
                 st     == IF sh >= 25 THEN 0 ELSE sm \div Pow2(sh)
                 sticky == IF sh >= 25 THEN TRUE ELSE sm % Pow2(sh) # 0
                 same   == Sgn(big[1]) = Sgn(small[1])
                 mag    == IF same THEN B + st
                           ELSE IF sticky THEN B - st - 1 ELSE B - st
             IN  F32Signed(Sgn(big[1]),
                           F32RoundMag(mag, big[2] - up, sticky))

F32Sub(x, y) == F32Add(x, F32Neg(y))

\* x * y, rounded once.  A product too wide for one integer is formed from
\* 12-bit halves as hi * 2^24 + lo.
F32Mul(x, y) ==
    LET a    == Abs(x[1])
        b    == Abs(y[1])
        sign == Sgn(x[1]) * Sgn(y[1])
        e    == x[2] + y[2]
    IN  IF a = 0 \/ b = 0 THEN F32Zero
        ELSE IF BitLen(a) + BitLen(b) <= 30
        THEN F32Signed(sign, F32RoundMag(a * b, e, FALSE))
        ELSE LET a1  == a \div 4096
                 a0  == a % 4096
                 b1  == b \div 4096
                 b0  == b % 4096
                 mid == a1 * b0 + a0 * b1
                 low == (mid % 4096) * 4096 + a0 * b0
                 lo  == low % 16777216
                 hi  == a1 * b1 + mid \div 4096 + low \div 16777216
                 k   == 30 - BitLen(hi)
                 v   == hi * Pow2(k) + lo \div Pow2(24 - k)
                 st  == lo % Pow2(24 - k) # 0
             IN  F32Signed(sign, F32RoundMag(v, e + 24 - k, st))

\* x < y
F32Less(x, y) == F32Sub(x, y)[1] < 0

\* int(floor(x)) for a float whose floor fits an int
F32FloorInt(x) ==
    IF x[2] >= 0 THEN x[1] * Pow2(x[2])
    ELSE IF -x[2] >= 31 THEN (IF x[1] < 0 THEN -1 ELSE 0)
    ELSE x[1] \div Pow2(-x[2])

\* (n * 2^k) mod m, by doubling
RECURSIVE ShiftMod(_, _, _)
ShiftMod(n, k, m) == IF k = 0 THEN n % m ELSE ShiftMod((2 * (n % m)) % m, k - 1, m)

\* fmod(x, y), y > 0: the exact remainder of the truncated division, with
\* the sign of x.
F32Fmod(x, y) ==
    LET a == Abs(x[1])
    IN  IF a = 0 THEN x
        ELSE IF F32Less(F32Signed(1, <<a, x[2]>>), y) THEN x
        ELSE IF x[2] >= y[2]
        THEN F32Signed(Sgn(x[1]), F32Norm(ShiftMod(a, x[2] - y[2], y[1]), y[2]))
        ELSE F32Signed(Sgn(x[1]), F32Norm(a % (y[1] * Pow2(y[2] - x[2])), x[2]))

-----------------------------------------------------------------------------
(* 32-bit unsigned integers, as <<high 16 bits, low 16 bits>> *)

RECURSIVE Xor16(_, _)
Xor16(a, b) ==
    IF a = 0 THEN b
    ELSE IF b = 0 THEN a
    ELSE ((a + b) % 2) + 2 * Xor16(a \div 2, b \div 2)

U32Xor(s, t) == <<Xor16(s[1], t[1]), Xor16(s[2], t[2])>>

\* s << k for 0 < k < 16, truncated to 32 bits
U32Shl(s, k) ==
    << (s[1] % Pow2(16 - k)) * Pow2(k) + s[2] \div Pow2(16 - k),
       (s[2] % Pow2(16 - k)) * Pow2(k) >>

\* s >> k for 16 <= k < 32
U32Shr(s, k) == <<0, s[1] \div Pow2(k - 16)>>

\* float(s): the nearest float to a 32-bit unsigned integer.  A value of
\* 2^30 or more is rounded from its upper 28 bits and a sticky bit.
F32FromU32(s) ==
    IF s[1] < 16384 THEN F32RoundMag(s[1] * 65536 + s[2], 0, FALSE)
    ELSE F32RoundMag(s[1] * 4096 + s[2] \div 16, 4, s[2] % 16 # 0)

-----------------------------------------------------------------------------
(* Random Source: random_in_range *)

\* static uint32_t rng_state = 0xf2eec0de
rng_seed == <<62190, 49374>>

\* One step of the xorshift generator: the three updates of rng_state.
xorshift(s) ==
    LET a == U32Xor(s, U32Shl(s, 13))
        b == U32Xor(a, U32Shr(a, 17))
    IN  U32Xor(b, U32Shl(b, 5))

\* float(rng_state) * (1.0f / 4294967296.0f), of the state after the step
random_0_to_1(s) ==
    LET f == F32FromU32(s) IN IF f[1] = 0 THEN f ELSE <<f[1], f[2] - 32>>

\* The value random_in_range(min, max) returns when the step leaves the
\* generator in state s.
random_in_range(s, min, max) ==
    F32Add(min, F32Mul(F32Sub(max, min), random_0_to_1(s)))

-----------------------------------------------------------------------------
(* Program constants and state *)

\* static const float two_pi = 6.283185308f, the float 13176795 * 2^-21
two_pi == <<13176795, -21>>

num_particles == 1000

\* static const float particles_per_second = 50.0f
particles_per_second == <<25, 1>>

\* static const float gravity = -40.0f
gravity == <<-5, 3>>

\* The clock counts ticks of 2^-TickLog2 seconds; glfwGetTime() returns the
\* double clock * 2^-TickLog2.
TickLog2 == 6

\* float(t) of a clock value, and float(t1 - t0) of a difference of two
F32FromTicks(t) == F32Signed(Sgn(t), F32RoundMag(Abs(t), -TickLog2, FALSE))

\* exp2(u) is not computed: a size is kept as its base-2 logarithm, and the
\* 0.0f of a zero-initialised record as zero.
exp2(u) == [zero |-> FALSE, log2 |-> u]

\* particle_data{} (the array is zero-initialised)
zero_particle ==
    [position |-> <<F32Zero, F32Zero>>, velocity |-> <<F32Zero, F32Zero>>,
     angle |-> F32Zero, spin |-> F32Zero,
     size |-> [zero |-> TRUE, log2 |-> F32Zero],
     creation_time |-> F32Zero]

Slots == 0 .. (num_particles - 1)

\* The four shader source files and the two pipelines load_all_shaders
\* builds from them.
VertexFile   == "vertex_shader.glsl"
FragmentFile == "fragment_shader.glsl"
QuadFile     == "vertex_shader_quad.glsl"
RaytraceFile == "fragment_shader_raytrace.glsl"

Files == {VertexFile, FragmentFile, QuadFile, RaytraceFile}

\* What a source file holds, as far as the driver tells: text that compiles
\* and links, text that does not compile, text that compiles but keeps its
\* program from linking.
Texts == {"ok", "compile_error", "link_error"}

\* A directory entry; one that is not present has the other fields at rest.
NoFile == [present |-> FALSE, mtime |-> 0, text |-> "ok"]

VARIABLES
    pc,                                 \* where main() is
    exit_code,                          \* what main() returned
    should_close,                       \* the window's close flag
    raytrace_mode,
    clock,                              \* glfwGetTime(), in ticks
    cur_time, prev_time,                \* locals of main(), in ticks
    prev_shader_load_time,              \* local of main(), in ticks
    timestep,                           \* local of main(), a float
    particles,                          \* particle_data particles[num_particles]
    rng_state,                          \* static in random_in_range
    next_particle_index,                \* static in generate_particles
    particle_generation_accumulator,    \* static in generate_particles
    num_vertices_per_particle,
    particle_shader_program, raytrace_shader_program,
    vertex_shader_mtime, fragment_shader_mtime,
    quad_vertex_shader_mtime, raytrace_shader_mtime,
    cwd_files, parent_files,            \* ./<name> and ../<name> on disk
    gl_programs,                        \* names of the live program objects
    uniform_buffer_data,                \* what the GPU sees in uniform_buffer
    particle_buffer_data,               \* what the GPU sees in particle_buffer
    draw_calls,                         \* draw calls the step just taken issued
    load_attempts,                      \* load_shaders calls the step just taken made
    key_events,                         \* key events the step just taken delivered
    emitted,                            \* history: the records the Emitter has written
    calls,                              \* history: the Emitter and Integrator calls made
    budget,                             \* environment events still allowed
    twin                                \* a second run of the emitter

emitter_vars == <<particles, rng_state, next_particle_index,
                  particle_generation_accumulator>>

main_vars == <<pc, exit_code, cur_time, prev_time, prev_shader_load_time,
               timestep>>

shader_vars == <<particle_shader_program, raytrace_shader_program,
                 vertex_shader_mtime, fragment_shader_mtime,
                 quad_vertex_shader_mtime, raytrace_shader_mtime,
                 gl_programs>>

disk_vars == <<cwd_files, parent_files>>

gpu_vars == <<uniform_buffer_data, particle_buffer_data>>

history_vars == <<emitted, calls>>

vars == <<main_vars, should_close, raytrace_mode, clock, emitter_vars,
          num_vertices_per_particle, shader_vars, disk_vars, gpu_vars,
          draw_calls, load_attempts, key_events, history_vars, budget, twin>>

\* A step that issues no draw call, a step that calls no load_shaders
no_draw == draw_calls' = <<>>

no_load == load_attempts' = <<>>

\* A step in which no key event is delivered
no_key == key_events' = <<>>

-----------------------------------------------------------------------------
(* Emitter: generate_particles *)

\* The five states rng_state passes through in the five random_in_range
\* calls of one braced initialiser, evaluated left to right; s is the state
\* before the first call.
rng_draws(s) ==
    LET s1 == xorshift(s)
        s2 == xorshift(s1)
        s3 == xorshift(s2)
        s4 == xorshift(s3)
    IN  <<s1, s2, s3, s4, xorshift(s4)>>

\* A record whose spin is drawn around the time of its creation
new_particle_clocked(d, time) ==
    [position |-> <<F32Zero, F32Zero>>,
     velocity |-> <<random_in_range(d[1], <<-3, 2>>, <<3, 2>>),
                    random_in_range(d[2], <<3, 3>>, <<3, 4>>)>>,
     angle    |-> random_in_range(d[3], F32Zero, two_pi),
     spin     |-> random_in_range(d[4], F32Sub(time, <<5, 0>>), F32Add(time, <<5, 0>>)),
     size     |-> exp2(random_in_range(d[5], <<-1, 1>>, <<1, -1>>)),
     creation_time |-> time]

\* A record stamped with the time a second after the reading of the clock
new_particle_postdated(d, time) ==
    [position |-> <<F32Zero, F32Zero>>,
     velocity |-> <<random_in_range(d[1], <<-3, 2>>, <<3, 2>>),
                    random_in_range(d[2], <<3, 3>>, <<3, 4>>)>>,
     angle    |-> random_in_range(d[3], F32Zero, two_pi),
     spin     |-> random_in_range(d[4], <<-5, 0>>, <<5, 0>>),
     size     |-> exp2(random_in_range(d[5], <<-1, 1>>, <<1, -1>>)),
     creation_time |-> F32Add(time, <<1, 0>>)]

\* The record the braced initialiser builds from the draws d
new_particle(d, time) ==
    [position |-> <<F32Zero, F32Zero>>,
     velocity |-> <<random_in_range(d[1], <<-3, 2>>, <<3, 2>>),
                    random_in_range(d[2], <<3, 3>>, <<3, 4>>)>>,
     angle    |-> random_in_range(d[3], F32Zero, two_pi),
     spin     |-> random_in_range(d[4], <<-5, 0>>, <<5, 0>>),
     size     |-> exp2(random_in_range(d[5], <<-1, 1>>, <<1, -1>>)),
     creation_time |-> time]

\* A cursor that is advanced but never wrapped
next_index_unwrapped(i) == i + 1

\* next_particle_index = (next_particle_index + 1) % num_particles
next_index(i) == (i + 1) % num_particles

\* A loop body that advances the cursor before it writes the record
emit_one_ahead(st, time) ==
    LET d == rng_draws(st.s)
        q == new_particle(d, time)
    IN  [p |-> [st.p EXCEPT ![next_index(st.i)] = q],
         i |-> next_index(st.i),
         s |-> d[5],
         log |-> Append(st.log, q)]

\* One turn of the loop body, on st = [p, i, s, log]: the array, the
\* cursor, the generator, and the history of the records written.
emit_one(st, time) ==
    LET d == rng_draws(st.s)
        q == new_particle(d, time)
    IN  [p |-> [st.p EXCEPT ![st.i] = q],
         i |-> next_index(st.i),
         s |-> d[5],
         log |-> Append(st.log, q)]

\* n turns of the loop (for i = 0 .. particles_to_generate - 1); none when
\* n <= 0.  The turns run in order, the first half before the second: the
\* singleton set makes the state after the first half a value before the
\* second half starts from it, which keeps TLC's evaluation shallow.
RECURSIVE emit_loop(_, _, _)
emit_loop(n, st, time) ==
    IF n <= 0 THEN st
    ELSE IF n = 1 THEN emit_one(st, time)
    ELSE CHOOSE r \in {emit_loop(n - n \div 2, half, time) :
                         half \in {emit_loop(n \div 2, st, time)}} : TRUE

\* particle_generation_accumulator += particles_per_second * timestep
accumulate(acc, dt) == F32Add(acc, F32Mul(particles_per_second, dt))

\* A count rounded up instead of down
particles_to_generate_up(acc, dt) == F32FloorInt(accumulate(acc, dt)) + 1

\* int(floor(particle_generation_accumulator))
particles_to_generate(acc, dt) == F32FloorInt(accumulate(acc, dt))

\* An accumulator that is never reduced
carry_over_all(acc, dt) == accumulate(acc, dt)

\* particle_generation_accumulator -= particles_to_generate
carry_over(acc, dt) ==
    F32Sub(accumulate(acc, dt), F32FromInt(particles_to_generate(acc, dt)))

\* The history entry of a call
call(op, dt) == [op |-> op, timestep |-> dt]

\* generate_particles(timestep) with timestep = dt, on the Emitter's state
\* e = [p, i, s, a, log] (array, cursor, generator, accumulator, history),
\* where time is what its glfwGetTime() returns
generate(e, dt, time) ==
    CHOOSE r \in {[p |-> st.p, i |-> st.i, s |-> st.s, log |-> st.log,
                   a |-> carry_over(e.a, dt)] :
                    st \in {emit_loop(particles_to_generate(e.a, dt),
                                      [p |-> e.p, i |-> e.i, s |-> e.s, log |-> e.log],
                                      time)}} : TRUE

\* The same on the program's variables
generate_particles(dt, time) ==
    \E e \in {generate([p |-> particles, i |-> next_particle_index, s |-> rng_state,
                        a |-> particle_generation_accumulator, log |-> emitted],
                       dt, time)} :
       /\ particle_generation_accumulator' = e.a
       /\ particles' = e.p
       /\ next_particle_index' = e.i
       /\ rng_state' = e.s
       /\ emitted' = e.log
       /\ calls' = Append(calls, call("generate_particles", dt))

-----------------------------------------------------------------------------
(* Integrator: simulate_particles *)

\* A body that moves the record with the velocity of after the step
simulate_one_implicit(q, dt) ==
    LET vy == F32Add(q.velocity[2], F32Mul(dt, gravity))
    IN  [q EXCEPT
           !.position = <<F32Add(q.position[1], F32Mul(dt, q.velocity[1])),
                          F32Add(q.position[2], F32Mul(dt, vy))>>,
           !.velocity = <<q.velocity[1], vy>>,
           !.angle    = F32Fmod(F32Add(q.angle, F32Mul(dt, q.spin)), two_pi)]

\* A body that lets the angle grow
simulate_one_unwrapped(q, dt) ==
    [q EXCEPT
       !.position = <<F32Add(q.position[1], F32Mul(dt, q.velocity[1])),
                      F32Add(q.position[2], F32Mul(dt, q.velocity[2]))>>,
       !.velocity = <<q.velocity[1],
                      F32Add(q.velocity[2], F32Mul(dt, gravity))>>,
       !.angle    = F32Add(q.angle, F32Mul(dt, q.spin))]

\* A loop body that also ages the record by the timestep
simulate_one_aging(q, dt) ==
    [q EXCEPT
       !.position = <<F32Add(q.position[1], F32Mul(dt, q.velocity[1])),
                      F32Add(q.position[2], F32Mul(dt, q.velocity[2]))>>,
       !.velocity = <<q.velocity[1],
                      F32Add(q.velocity[2], F32Mul(dt, gravity))>>,
       !.angle    = F32Fmod(F32Add(q.angle, F32Mul(dt, q.spin)), two_pi),
       !.creation_time = F32Add(q.creation_time, dt)]

\* The loop body for one record
simulate_one(q, dt) ==
    [q EXCEPT
       !.position = <<F32Add(q.position[1], F32Mul(dt, q.velocity[1])),
                      F32Add(q.position[2], F32Mul(dt, q.velocity[2]))>>,
       !.velocity = <<q.velocity[1],
                      F32Add(q.velocity[2], F32Mul(dt, gravity))>>,
       !.angle    = F32Fmod(F32Add(q.angle, F32Mul(dt, q.spin)), two_pi)]

\* An Integrator that runs ahead of the Emitter: the records written at this
\* reading of the clock are left for the next call to step
simulate_particles_older(dt) ==
    \E stepped \in {[q \in {particles[i] : i \in Slots} |->
                       IF q.creation_time = F32FromTicks(clock) /\ clock > 0
                       THEN q ELSE simulate_one(q, dt)]} :
       /\ particles' = [i \in Slots |-> stepped[particles[i]]]
       /\ calls' = Append(calls, call("simulate_particles", dt))

\* simulate_particles(timestep) with timestep = dt: the body applied to
\* every slot.  Equal records step alike, so the stepped value of each
\* distinct record is tabulated and every slot looks its record up.
simulate_particles(dt) ==
    \E stepped \in {[q \in {particles[i] : i \in Slots} |-> simulate_one(q, dt)]} :
       /\ particles' = [i \in Slots |-> stepped[particles[i]]]
       /\ calls' = Append(calls, call("simulate_particles", dt))

-----------------------------------------------------------------------------
(* Program Loader: try_load_shader, load_shaders, load_all_shaders *)

\* The file both searches settle on: ./<name> when stat finds it, else
\* ../<name>, which may be absent too.
found_file(f) == IF cwd_files[f].present THEN cwd_files[f] ELSE parent_files[f]

\* A try_load_shader that stores the mtime only of a file that compiled
try_load_shader_late(f, mtime) ==
    LET file == found_file(f)
    IN  IF ~file.present
        THEN [shader |-> 0, mtime |-> mtime, text |-> "missing"]
        ELSE IF file.text = "compile_error"
        THEN [shader |-> 0, mtime |-> mtime, text |-> file.text]
        ELSE [shader |-> 1, mtime |-> file.mtime, text |-> file.text]

\* try_load_shader(type, f, &mtime): the shader object it returns (0, or 1
\* for the name of a compiled shader) and what it leaves in *o_mtime, which
\* is written as soon as the file is open, before the compilation.
try_load_shader(f, mtime) ==
    LET file == found_file(f)
    IN  IF ~file.present
        THEN [shader |-> 0, mtime |-> mtime, text |-> "missing"]
        ELSE IF file.text = "compile_error"
        THEN [shader |-> 0, mtime |-> file.mtime, text |-> file.text]
        ELSE [shader |-> 1, mtime |-> file.mtime, text |-> file.text]

\* GL_LINK_STATUS of the program linked from two compiled shaders
link_status(v, f) == v.text = "ok" /\ f.text = "ok"

\* A loader that stores the new handle before it knows the link succeeded
load_shaders_eager(vf, ff, vtime, ftime, program, live, name) ==
    LET v == try_load_shader(vf, vtime)
        f == try_load_shader(ff, ftime)
        linked == v.shader # 0 /\ f.shader # 0 /\ link_status(v, f)
    IN  [vtime   |-> v.mtime,
         ftime   |-> f.mtime,
         program |-> IF linked THEN name ELSE 0,
         live    |-> IF linked THEN (live \ {program}) \cup {name} ELSE live \ {program},
         attempt |-> [vertex |-> vf, before |-> program,
                      outcome |-> IF linked THEN "linked" ELSE "link_error"]]

\* load_shaders(vf, ff, &vtime, &ftime, &program), with live the names of
\* the program objects that exist and name the one glCreateProgram returns
\* if it is called.  Gives the new values of the three referents and of
\* live, and how the attempt ended.  Both files are tried before either
\* result is looked at; a program that fails to link is deleted again.
load_shaders(vf, ff, vtime, ftime, program, live, name) ==
    LET v == try_load_shader(vf, vtime)
        f == try_load_shader(ff, ftime)
        linked  == v.shader # 0 /\ f.shader # 0 /\ link_status(v, f)
        outcome == IF "missing" \in {v.text, f.text} THEN "missing"
                   ELSE IF v.shader = 0 \/ f.shader = 0 THEN "compile_error"
                   ELSE IF ~link_status(v, f) THEN "link_error"
                   ELSE "linked"
    IN  [vtime   |-> v.mtime,
         ftime   |-> f.mtime,
         program |-> IF linked THEN name ELSE program,
         live    |-> IF linked THEN (live \ {program}) \cup {name} ELSE live,
         attempt |-> [vertex |-> vf, before |-> program, outcome |-> outcome]]

\* glCreateProgram returns a name but 0 that no live program has.  The
\* program compares names with 0 only, so which free name comes back is
\* left to CHOOSE.
MaxProgramName == 3

free_names(live) == (1 .. MaxProgramName) \ live

glCreateProgram(live) == CHOOSE n \in free_names(live) : TRUE

\* load_all_shaders(): the rasterise pipeline, then the ray-trace pipeline
load_all_shaders ==
    \E n1 \in {glCreateProgram(gl_programs)} :
    \E r1 \in {load_shaders(VertexFile, FragmentFile, vertex_shader_mtime,
                            fragment_shader_mtime, particle_shader_program,
                            gl_programs, n1)} :
    \E n2 \in {glCreateProgram(r1.live)} :
    \E r2 \in {load_shaders(QuadFile, RaytraceFile, quad_vertex_shader_mtime,
                            raytrace_shader_mtime, raytrace_shader_program,
                            r1.live, n2)} :
       /\ vertex_shader_mtime' = r1.vtime
       /\ fragment_shader_mtime' = r1.ftime
       /\ particle_shader_program' = r1.program
       /\ quad_vertex_shader_mtime' = r2.vtime
       /\ raytrace_shader_mtime' = r2.ftime
       /\ raytrace_shader_program' = r2.program
       /\ gl_programs' = r2.live
       /\ load_attempts' = <<r1.attempt, r2.attempt>>

-----------------------------------------------------------------------------
(* Hot-Reload Watcher: check_shader_changed, reload_shaders_if_changed *)

\* A check that reports any difference of the two mtimes
check_shader_differs(f, prev_mtime) ==
    LET file == found_file(f)
    IN  file.present /\ file.mtime # prev_mtime

\* A check that takes a file found at neither path for a changed one
check_shader_changed_or_gone(f, prev_mtime) ==
    LET file == found_file(f)
    IN  ~file.present \/ file.mtime > prev_mtime

\* check_shader_changed(f, prev_mtime): a file found at neither path counts
\* as unmodified.
check_shader_changed(f, prev_mtime) ==
    LET file == found_file(f)
    IN  file.present /\ file.mtime > prev_mtime

\* A condition that watches the files of the rasterise pipeline alone
any_raster_shader_changed ==
    \/ check_shader_changed(VertexFile, vertex_shader_mtime)
    \/ check_shader_changed(FragmentFile, fragment_shader_mtime)

\* The condition of reload_shaders_if_changed
any_shader_changed ==
    \/ check_shader_changed(VertexFile, vertex_shader_mtime)
    \/ check_shader_changed(FragmentFile, fragment_shader_mtime)
    \/ check_shader_changed(QuadFile, quad_vertex_shader_mtime)
    \/ check_shader_changed(RaytraceFile, raytrace_shader_mtime)

reload_shaders_if_changed ==
    IF any_shader_changed
    THEN load_all_shaders
    ELSE no_load /\ UNCHANGED shader_vars

-----------------------------------------------------------------------------
(* Renderer: render_frame *)

\* static const int star_points = 5; num_vertices = 6 * star_points
star_points == 5

num_vertices == 6 * star_points

\* A draw of as many instances as particles have been emitted
draw_call_emitted ==
    IF ~raytrace_mode
    THEN [call |-> "glDrawArraysInstanced", program |-> particle_shader_program,
          count |-> num_vertices_per_particle, instances |-> Len(emitted)]
    ELSE [call |-> "glDrawArrays", program |-> raytrace_shader_program,
          count |-> 6, instances |-> 1]

\* The one draw call of render_frame
draw_call ==
    IF ~raytrace_mode
    THEN [call |-> "glDrawArraysInstanced", program |-> particle_shader_program,
          count |-> num_vertices_per_particle, instances |-> num_particles]
    ELSE [call |-> "glDrawArrays", program |-> raytrace_shader_program,
          count |-> 6, instances |-> 1]

\* A render_frame that gives the frame up at the first buffer it cannot map
render_frame_abort(time, map_uniform, map_particle) ==
    /\ uniform_buffer_data' =
          IF map_uniform THEN [defined |-> TRUE, time |-> time]
          ELSE uniform_buffer_data
    /\ particle_buffer_data' =
          IF map_uniform /\ map_particle THEN [defined |-> TRUE, particles |-> particles]
          ELSE particle_buffer_data
    /\ draw_calls' = IF map_uniform /\ map_particle THEN <<draw_call>> ELSE <<>>

\* render_frame(), where time is the float its glfwGetTime() gives and
\* map_uniform, map_particle say whether glMapBufferRange returned a
\* pointer.  Of the uniform block only time is kept: the window size and
\* the light direction are not modelled.
render_frame(time, map_uniform, map_particle) ==
    /\ uniform_buffer_data' =
          IF map_uniform THEN [defined |-> TRUE, time |-> time]
          ELSE uniform_buffer_data
    /\ particle_buffer_data' =
          IF map_particle THEN [defined |-> TRUE, particles |-> particles]
          ELSE particle_buffer_data
    /\ draw_calls' = <<draw_call>>

-----------------------------------------------------------------------------
(* Callbacks: key_callback, window_resize_callback *)

Keys == {"GLFW_KEY_ESCAPE", "GLFW_KEY_R", "GLFW_KEY_SPACE"}

KeyActions == {"GLFW_PRESS", "GLFW_RELEASE", "GLFW_REPEAT"}

\* A key_callback that does not look at the action of the event
key_callback_any_action(key, action) ==
    /\ key_events' = <<[key |-> key, action |-> action]>>
    /\ should_close' = IF key = "GLFW_KEY_ESCAPE" THEN TRUE ELSE should_close
    /\ raytrace_mode' = IF key = "GLFW_KEY_R" THEN ~raytrace_mode ELSE raytrace_mode

\* key_callback(window, key, scancode, action, mods)
key_callback(key, action) ==
    /\ key_events' = <<[key |-> key, action |-> action]>>
    /\ should_close' = IF key = "GLFW_KEY_ESCAPE" /\ action = "GLFW_PRESS"
                       THEN TRUE ELSE should_close
    /\ raytrace_mode' = IF key = "GLFW_KEY_R" /\ action = "GLFW_PRESS"
                        THEN ~raytrace_mode ELSE raytrace_mode

\* A resize callback that leaves the drawing to the next turn of the loop
window_resize_callback_idle(time, map_uniform, map_particle) ==
    /\ draw_calls' = <<>>
    /\ UNCHANGED gpu_vars

\* window_resize_callback: render_frame() and glfwSwapBuffers(window)
window_resize_callback(time, map_uniform, map_particle) ==
    render_frame(time, map_uniform, map_particle)

-----------------------------------------------------------------------------
(* The state after construction, and what its surroundings may do *)

no_upload == [defined |-> FALSE]

\* The particle system at the start of the program
InitParticles ==
    /\ particles = [i \in Slots |-> zero_particle]
    /\ rng_state = rng_seed
    /\ next_particle_index = 0
    /\ particle_generation_accumulator = F32Zero
    /\ clock = 0
    /\ emitted = <<>>
    /\ calls = <<>>

\* All of the program's state but the particle system's
InitGlobals ==
    /\ exit_code = 0
    /\ should_close = FALSE
    /\ raytrace_mode = FALSE
    /\ cur_time = 0
    /\ prev_time = 0
    /\ prev_shader_load_time = 0
    /\ num_vertices_per_particle = 0
    /\ particle_shader_program = 0
    /\ raytrace_shader_program = 0
    /\ vertex_shader_mtime = 0
    /\ fragment_shader_mtime = 0
    /\ quad_vertex_shader_mtime = 0
    /\ raytrace_shader_mtime = 0
    /\ gl_programs = {}
    /\ uniform_buffer_data = no_upload
    /\ particle_buffer_data = no_upload
    /\ draw_calls = <<>>
    /\ load_attempts = <<>>
    /\ key_events = <<>>
    /\ twin = <<>>

\* Static storage is zero-initialised; the two flags and rng_state carry
\* initialisers.  The directories are whatever the disk holds.
InitProgram == InitGlobals /\ InitParticles

\* Modification times the disk may show
MaxMtime == 2

Mtimes == 1 .. MaxMtime

Directories == {"./", "../"}

good_file(m) == [present |-> TRUE, mtime |-> m, text |-> "ok"]

\* ./ as the program may find it at start: no shader file there, all four
\* there and good with one mtime, or all four there and one of them bad.
InitDirectories ==
    {[f \in Files |-> NoFile]}
    \cup {[f \in Files |-> good_file(m)] : m \in Mtimes}
    \cup {[f \in Files |-> IF f = b THEN [present |-> TRUE, mtime |-> 1, text |-> t]
                           ELSE good_file(1)] :
             b \in Files, t \in Texts \ {"ok"}}

\* ../ at start: no shader file there, or all four there and good
InitParentDirectories ==
    {[f \in Files |-> NoFile], [f \in Files |-> good_file(1)]}

\* Somebody saves file f in directory d, leaving it with mtime m
SaveFile ==
    /\ budget > 0
    /\ pc \in {"init_graphics", "reload"}
    /\ \E d \in Directories, f \in Files, m \in Mtimes, t \in Texts :
          LET file == [present |-> TRUE, mtime |-> m, text |-> t]
          IN  /\ cwd_files' = IF d = "./" THEN [cwd_files EXCEPT ![f] = file]
                              ELSE cwd_files
              /\ parent_files' = IF d = "../" THEN [parent_files EXCEPT ![f] = file]
                                 ELSE parent_files
    /\ budget' = budget - 1
    /\ no_draw /\ no_key /\ no_load
    /\ UNCHANGED <<main_vars, should_close, raytrace_mode, clock, emitter_vars, history_vars,
                   num_vertices_per_particle, shader_vars, gpu_vars, twin>>

\* Somebody removes file f from directory d
RemoveFile ==
    /\ budget > 0
    /\ pc \in {"init_graphics", "reload"}
    /\ \E d \in Directories, f \in Files :
          /\ (IF d = "./" THEN cwd_files ELSE parent_files)[f].present
          /\ cwd_files' = IF d = "./" THEN [cwd_files EXCEPT ![f] = NoFile]
                          ELSE cwd_files
          /\ parent_files' = IF d = "../" THEN [parent_files EXCEPT ![f] = NoFile]
                             ELSE parent_files
    /\ budget' = budget - 1
    /\ no_draw /\ no_key /\ no_load
    /\ UNCHANGED <<main_vars, should_close, raytrace_mode, clock, emitter_vars, history_vars,
                   num_vertices_per_particle, shader_vars, gpu_vars, twin>>

-----------------------------------------------------------------------------
(* Spec: the program.  main() initialises, then turns the frame loop until *)
(* the window is to close.  Frames take 1/64 s or 1/2 s.                   *)

FrameTicks == {1, Pow2(TickLog2 - 1)}

\* 0.5 s in ticks
half_second == Pow2(TickLog2 - 1)

\* A Watcher that also checks when exactly half a second has passed
check_due_inclusive(now, last) == now >= last + half_second

\* cur_time > prev_shader_load_time + 0.5
check_due(now, last) == now > last + half_second

MaxFrames == 3

MaxEvents == 2

Init ==
    /\ InitProgram
    /\ pc = "glfwInit"
    /\ timestep = F32Zero
    /\ cwd_files \in {[f \in Files |-> NoFile], [f \in Files |-> good_file(1)]}
    /\ parent_files = [f \in Files |-> NoFile]
    /\ budget = MaxEvents

\* if (!glfwInit()) return -1
Main_glfwInit ==
    /\ pc = "glfwInit"
    /\ \E ok \in BOOLEAN :
          /\ pc' = IF ok THEN "glfwCreateWindow" ELSE "return"
          /\ exit_code' = IF ok THEN exit_code ELSE -1
    /\ no_draw /\ no_key /\ no_load
    /\ UNCHANGED <<cur_time, prev_time, prev_shader_load_time, timestep,
                   should_close, raytrace_mode, clock, emitter_vars, history_vars,
                   num_vertices_per_particle, shader_vars, disk_vars, gpu_vars,
                   budget, twin>>

\* if (!window) return -1
Main_glfwCreateWindow ==
    /\ pc = "glfwCreateWindow"
    /\ \E ok \in BOOLEAN :
          /\ pc' = IF ok THEN "gladLoadGL" ELSE "return"
          /\ exit_code' = IF ok THEN exit_code ELSE -1
    /\ no_draw /\ no_key /\ no_load
    /\ UNCHANGED <<cur_time, prev_time, prev_shader_load_time, timestep,
                   should_close, raytrace_mode, clock, emitter_vars, history_vars,
                   num_vertices_per_particle, shader_vars, disk_vars, gpu_vars,
                   budget, twin>>

\* A gladLoadGL check that reports the failure and goes on
Main_gladLoadGL_goes_on ==
    /\ pc = "gladLoadGL"
    /\ \E ok \in BOOLEAN :
          /\ pc' = "init_graphics"
          /\ exit_code' = IF ok THEN exit_code ELSE -1
    /\ no_draw /\ no_key /\ no_load
    /\ UNCHANGED <<cur_time, prev_time, prev_shader_load_time, timestep,
                   should_close, raytrace_mode, clock, emitter_vars, history_vars,
                   num_vertices_per_particle, shader_vars, disk_vars, gpu_vars,
                   budget, twin>>

\* if (!gladLoadGL()) return -1
Main_gladLoadGL ==
    /\ pc = "gladLoadGL"
    /\ \E ok \in BOOLEAN :
          /\ pc' = IF ok THEN "init_graphics" ELSE "return"
          /\ exit_code' = IF ok THEN exit_code ELSE -1
    /\ no_draw /\ no_key /\ no_load
    /\ UNCHANGED <<cur_time, prev_time, prev_shader_load_time, timestep,
                   should_close, raytrace_mode, clock, emitter_vars, history_vars,
                   num_vertices_per_particle, shader_vars, disk_vars, gpu_vars,
                   budget, twin>>

\* init_graphics(); prev_time = 0.0; prev_shader_load_time = 0.0
Main_init_graphics ==
    /\ pc = "init_graphics"
    /\ load_all_shaders
    /\ num_vertices_per_particle' = num_vertices
    /\ prev_time' = 0
    /\ prev_shader_load_time' = 0
    /\ pc' = "while"
    /\ no_draw /\ no_key
    /\ UNCHANGED <<exit_code, cur_time, timestep, should_close, raytrace_mode,
                   clock, emitter_vars, history_vars, disk_vars, gpu_vars,
                   budget, twin>>

\* A loop that never looks at the close flag
Main_while_forever ==
    /\ pc = "while"
    /\ Len(calls) < 2 * MaxFrames
    /\ \E d \in FrameTicks : clock' = clock + d
    /\ cur_time' = clock'
    /\ timestep' = F32FromTicks(cur_time' - prev_time)
    /\ prev_time' = cur_time'
    /\ pc' = "generate_particles"
    /\ no_draw /\ no_key /\ no_load
    /\ UNCHANGED <<exit_code, prev_shader_load_time, should_close, raytrace_mode,
                   emitter_vars, history_vars, num_vertices_per_particle,
                   shader_vars, disk_vars, gpu_vars, budget, twin>>

\* while (!glfwWindowShouldClose(window)): cur_time = glfwGetTime();
\* timestep = float(cur_time - prev_time); prev_time = cur_time.  After the
\* loop, return 0.
Main_while ==
    /\ pc = "while"
    /\ IF should_close
       THEN /\ pc' = "return"
            /\ exit_code' = 0
            /\ UNCHANGED <<clock, cur_time, prev_time, timestep>>
       ELSE /\ Len(calls) < 2 * MaxFrames
            /\ \E d \in FrameTicks : clock' = clock + d
            /\ cur_time' = clock'
            /\ timestep' = F32FromTicks(cur_time' - prev_time)
            /\ prev_time' = cur_time'
            /\ pc' = "generate_particles"
            /\ UNCHANGED exit_code
    /\ no_draw /\ no_key /\ no_load
    /\ UNCHANGED <<prev_shader_load_time, should_close, raytrace_mode,
                   emitter_vars, history_vars, num_vertices_per_particle,
                   shader_vars, disk_vars, gpu_vars, budget, twin>>

\* A reading of glfwGetTime() late in the frame may find the clock a tick on
late(d) == d = 0 \/ (d = 1 /\ budget > 0)

Main_generate_particles ==
    /\ pc = "generate_particles"
    /\ \E d \in {0, 1} :
          /\ late(d)
          /\ clock' = clock + d
          /\ budget' = budget - d
    /\ generate_particles(timestep, F32FromTicks(clock'))
    /\ pc' = "simulate_particles"
    /\ no_draw /\ no_key /\ no_load
    /\ UNCHANGED <<exit_code, cur_time, prev_time, prev_shader_load_time, timestep,
                   should_close, raytrace_mode, num_vertices_per_particle,
                   shader_vars, disk_vars, gpu_vars, twin>>

Main_simulate_particles ==
    /\ pc = "simulate_particles"
    /\ simulate_particles(timestep)
    /\ pc' = "reload"
    /\ no_draw /\ no_key /\ no_load
    /\ UNCHANGED <<exit_code, cur_time, prev_time, prev_shader_load_time, timestep,
                   should_close, raytrace_mode, clock, rng_state,
                   next_particle_index, particle_generation_accumulator, emitted,
                   num_vertices_per_particle, shader_vars, disk_vars, gpu_vars,
                   budget, twin>>

\* if (cur_time > prev_shader_load_time + 0.5)
\*     { reload_shaders_if_changed(); prev_shader_load_time = cur_time; }
Main_reload ==
    /\ pc = "reload"
    /\ IF check_due(cur_time, prev_shader_load_time)
       THEN /\ reload_shaders_if_changed
            /\ prev_shader_load_time' = cur_time
       ELSE /\ no_load
            /\ UNCHANGED <<shader_vars, prev_shader_load_time>>
    /\ pc' = "render_frame"
    /\ no_draw /\ no_key
    /\ UNCHANGED <<exit_code, cur_time, prev_time, timestep, should_close,
                   raytrace_mode, clock, emitter_vars, history_vars,
                   num_vertices_per_particle, disk_vars, gpu_vars, budget, twin>>

\* A glMapBufferRange that returns no pointer is an event of the surroundings
maps(map_uniform, map_particle) ==
    (map_uniform /\ map_particle) \/ budget > 0

Main_render_frame ==
    /\ pc = "render_frame"
    /\ \E map_uniform, map_particle \in BOOLEAN :
          /\ maps(map_uniform, map_particle)
          /\ render_frame(F32FromTicks(clock), map_uniform, map_particle)
          /\ no_key
          /\ budget' = IF map_uniform /\ map_particle THEN budget ELSE budget - 1
    /\ pc' = "glfwSwapBuffers"
    /\ no_load
    /\ UNCHANGED <<exit_code, cur_time, prev_time, prev_shader_load_time, timestep,
                   should_close, raytrace_mode, clock, emitter_vars, history_vars,
                   num_vertices_per_particle, shader_vars, disk_vars, twin>>

Main_glfwSwapBuffers ==
    /\ pc = "glfwSwapBuffers"
    /\ pc' = "glfwPollEvents"
    /\ no_draw /\ no_key /\ no_load
    /\ UNCHANGED <<exit_code, cur_time, prev_time, prev_shader_load_time, timestep,
                   should_close, raytrace_mode, clock, emitter_vars, history_vars,
                   num_vertices_per_particle, shader_vars, disk_vars, gpu_vars,
                   budget, twin>>

\* glfwPollEvents() calls key_callback for a key event ...
Poll_key_callback ==
    /\ pc = "glfwPollEvents"
    /\ budget > 0
    /\ \E key \in Keys, action \in KeyActions : key_callback(key, action)
    /\ budget' = budget - 1
    /\ no_draw /\ no_load
    /\ UNCHANGED <<main_vars, clock, emitter_vars, history_vars,
                   num_vertices_per_particle, shader_vars, disk_vars, gpu_vars,
                   twin>>

\* ... and window_resize_callback when the window is resized, which takes
\* time ...
Poll_window_resize_callback ==
    /\ pc = "glfwPollEvents"
    /\ budget > 0
    /\ clock' = clock + 1
    /\ window_resize_callback(F32FromTicks(clock'), TRUE, TRUE)
    /\ no_key
    /\ budget' = budget - 1
    /\ no_load
    /\ UNCHANGED <<main_vars, should_close, raytrace_mode, emitter_vars,
                   history_vars, num_vertices_per_particle, shader_vars, disk_vars,
                   twin>>

\* ... and returns
Main_glfwPollEvents ==
    /\ pc = "glfwPollEvents"
    /\ pc' = "while"
    /\ no_draw /\ no_key /\ no_load
    /\ UNCHANGED <<exit_code, cur_time, prev_time, prev_shader_load_time, timestep,
                   should_close, raytrace_mode, clock, emitter_vars, history_vars,
                   num_vertices_per_particle, shader_vars, disk_vars, gpu_vars,
                   budget, twin>>

\* Somebody saves a good shader file in ./ while the program runs
TouchFile ==
    /\ pc = "reload"
    /\ budget > 0
    /\ \E f \in Files : cwd_files' = [cwd_files EXCEPT ![f] = good_file(MaxMtime)]
    /\ budget' = budget - 1
    /\ no_draw /\ no_key /\ no_load
    /\ UNCHANGED <<main_vars, should_close, raytrace_mode, clock, emitter_vars,
                   history_vars, num_vertices_per_particle, shader_vars,
                   parent_files, gpu_vars, twin>>

Next ==
    \/ Main_glfwInit
    \/ Main_glfwCreateWindow
    \/ Main_gladLoadGL
    \/ Main_init_graphics
    \/ Main_while
    \/ Main_generate_particles
    \/ Main_simulate_particles
    \/ Main_reload
    \/ Main_render_frame
    \/ Main_glfwSwapBuffers
    \/ Poll_key_callback
    \/ Poll_window_resize_callback
    \/ Main_glfwPollEvents
    \/ TouchFile

Spec == Init /\ [][Next]_vars

-----------------------------------------------------------------------------
(* SpecReload: the Program Loader and the Watcher under a changing disk.   *)
(* init_graphics loads once; from then on Watcher checks, renders and mode *)
(* switches come in any order, with no rate limit between the checks.      *)

MaxDiskEvents == 1

InitReload ==
    /\ InitProgram
    /\ timestep = F32Zero
    /\ pc = "init_graphics"
    /\ cwd_files \in InitDirectories
    /\ parent_files \in InitParentDirectories
    /\ budget = MaxDiskEvents

Reload_init_graphics ==
    /\ pc = "init_graphics"
    /\ load_all_shaders
    /\ num_vertices_per_particle' = num_vertices
    /\ pc' = "reload"
    /\ no_draw /\ no_key
    /\ UNCHANGED <<exit_code, cur_time, prev_time, prev_shader_load_time, timestep,
                   should_close, raytrace_mode, clock, emitter_vars, history_vars, disk_vars,
                   gpu_vars, budget, twin>>

Reload_check ==
    /\ pc = "reload"
    /\ reload_shaders_if_changed
    /\ pc' = "render_frame"
    /\ no_draw /\ no_key
    /\ UNCHANGED <<exit_code, cur_time, prev_time, prev_shader_load_time, timestep,
                   should_close, raytrace_mode, clock, emitter_vars, history_vars,
                   num_vertices_per_particle, disk_vars, gpu_vars, budget, twin>>

Reload_render_frame ==
    /\ pc = "render_frame"
    /\ render_frame(F32FromTicks(clock), TRUE, TRUE)
    /\ no_key
    /\ pc' = "glfwPollEvents"
    /\ no_load
    /\ UNCHANGED <<exit_code, cur_time, prev_time, prev_shader_load_time, timestep,
                   should_close, raytrace_mode, clock, emitter_vars, history_vars,
                   num_vertices_per_particle, shader_vars, disk_vars, budget, twin>>

Reload_key_callback ==
    /\ pc = "glfwPollEvents"
    /\ key_callback("GLFW_KEY_R", "GLFW_PRESS")
    /\ pc' = "reload"
    /\ no_draw /\ no_load
    /\ UNCHANGED <<exit_code, cur_time, prev_time, prev_shader_load_time, timestep,
                   clock, emitter_vars, history_vars, num_vertices_per_particle,
                   shader_vars, disk_vars, gpu_vars, budget, twin>>

Reload_poll_return ==
    /\ pc = "glfwPollEvents"
    /\ pc' = "reload"
    /\ no_draw /\ no_key /\ no_load
    /\ UNCHANGED <<exit_code, cur_time, prev_time, prev_shader_load_time, timestep,
                   should_close, raytrace_mode, clock, emitter_vars, history_vars,
                   num_vertices_per_particle, shader_vars, disk_vars, gpu_vars,
                   budget, twin>>

NextReload ==
    \/ Reload_init_graphics
    \/ Reload_check
    \/ Reload_render_frame
    \/ Reload_key_callback
    \/ Reload_poll_return
    \/ SaveFile
    \/ RemoveFile

SpecReload == InitReload /\ [][NextReload]_vars

-----------------------------------------------------------------------------
(* Program replacement and change detection, checked under SpecReload *)

\* The handle a pipeline has active, the pipeline named by its vertex file
active_program(vf) ==
    IF vf = VertexFile THEN particle_shader_program ELSE raytrace_shader_program

\* The mtime the program has stored for a file
stored_mtime(f) ==
    IF f = VertexFile THEN vertex_shader_mtime
    ELSE IF f = FragmentFile THEN fragment_shader_mtime
    ELSE IF f = QuadFile THEN quad_vertex_shader_mtime
    ELSE raytrace_shader_mtime

Failures == {"missing", "compile_error", "link_error"}

\* C1: in every step, a pipeline whose handle is not zero keeps a handle
\* that is not zero; every load_shaders call of the step that failed
\* (source missing, compile failure, link failure) leaves its pipeline
\* with the handle it had before the step; and every draw call of the step
\* binds a program that is not zero if the pipeline of the mode had one.
C1_AtomicReplacement ==
    [][/\ particle_shader_program # 0 => particle_shader_program' # 0
       /\ raytrace_shader_program # 0 => raytrace_shader_program' # 0
       /\ \A k \in 1 .. Len(load_attempts') :
             load_attempts'[k].outcome \in Failures =>
                /\ load_attempts'[k].vertex = VertexFile =>
                      particle_shader_program' = particle_shader_program
                /\ load_attempts'[k].vertex = QuadFile =>
                      raytrace_shader_program' = raytrace_shader_program
       /\ \A k \in 1 .. Len(draw_calls') :
             (IF raytrace_mode THEN raytrace_shader_program
              ELSE particle_shader_program) # 0 => draw_calls'[k].program # 0
      ]_vars

\* A reload has just failed for a pipeline that had a program, and the
\* pipeline still has that program
C1_Witness ==
    \E k \in 1 .. Len(load_attempts) :
       /\ load_attempts[k].outcome \in Failures
       /\ load_attempts[k].before # 0
       /\ active_program(load_attempts[k].vertex) = load_attempts[k].before
       /\ pc = "render_frame"

\* Some file the searches find has an mtime that relates by rel to the
\* stored one
some_file(rel(_, _)) ==
    \E f \in Files : found_file(f).present /\ rel(found_file(f).mtime, stored_mtime(f))

newer(disk, stored) == disk > stored

older(disk, stored) == disk < stored

differs(disk, stored) == disk # stored

\* The load_shaders calls of a step are those of load_all_shaders
loads_both_pipelines(attempts) ==
    /\ Len(attempts) = 2
    /\ attempts[1].vertex = VertexFile
    /\ attempts[2].vertex = QuadFile

\* C10 as amended: at every Watcher check, the Program Loader is invoked
\* for both pipelines if some shader file that is found has an on-disk
\* mtime strictly greater than the stored one; otherwise (every found
\* file has an equal or an older mtime, files found nowhere counting as
\* unchanged) no load is attempted and handles and stored mtimes stay.
C10_ReloadOnNewer ==
    [][(pc = "reload" /\ pc' = "render_frame") =>
          IF some_file(newer)
          THEN loads_both_pipelines(load_attempts')
          ELSE load_attempts' = <<>> /\ UNCHANGED shader_vars
      ]_vars

\* C10 as stated: the loader runs exactly when some on-disk mtime differs
\* from the stored one, newer or older.
C10_ReloadOnDifference ==
    [][(pc = "reload" /\ pc' = "render_frame") =>
          IF some_file(differs)
          THEN loads_both_pipelines(load_attempts')
          ELSE load_attempts' = <<>>
      ]_vars

\* A Watcher check has just run without a load although a file on disk is
\* older than the mtime stored for it
C10_Witness ==
    /\ pc = "render_frame"
    /\ load_attempts = <<>>
    /\ some_file(older)

-----------------------------------------------------------------------------
(* SpecEmit: the Emitter alone.  It is called again and again with the     *)
(* timestep the run started with, which may be changed between two calls.  *)
(* A run starts with the program, or after a first call whose timestep     *)
(* was long enough for 995 particles.                                      *)

\* 1/64, 0.019f, 0.02f, 1/4 and 0
EmitTimesteps == {<<1, -6>>, <<10200547, -29>>, <<5368709, -28>>, <<1, -2>>, F32Zero}

\* 19.90625 s: 995.3125 particles
long_timestep == <<637, -5>>

MaxEmitCalls == 21

MaxRetimes == 1

InitEmit ==
    /\ InitProgram
    /\ pc = "generate_particles"
    /\ timestep \in EmitTimesteps
    /\ cwd_files = [f \in Files |-> NoFile]
    /\ parent_files = [f \in Files |-> NoFile]
    /\ budget = MaxRetimes

Emit_generate_particles ==
    /\ pc = "generate_particles"
    /\ Len(calls) < MaxEmitCalls
    /\ clock' = clock + 1
    /\ generate_particles(timestep, F32FromTicks(clock'))
    /\ no_draw /\ no_key /\ no_load
    /\ UNCHANGED <<main_vars, should_close, raytrace_mode,
                   num_vertices_per_particle, shader_vars, disk_vars, gpu_vars,
                   budget, twin>>

\* The first call of a run that starts with a long frame
Emit_long_frame ==
    /\ pc = "generate_particles"
    /\ calls = <<>>
    /\ clock' = clock + 1
    /\ generate_particles(long_timestep, F32FromTicks(clock'))
    /\ no_draw /\ no_key /\ no_load
    /\ UNCHANGED <<main_vars, should_close, raytrace_mode,
                   num_vertices_per_particle, shader_vars, disk_vars, gpu_vars,
                   budget, twin>>

\* The next frames take another time
Emit_retime ==
    /\ pc = "generate_particles"
    /\ budget > 0
    /\ calls # <<>>
    /\ \E dt \in EmitTimesteps \ {timestep} : timestep' = dt
    /\ budget' = budget - 1
    /\ no_draw /\ no_key /\ no_load
    /\ UNCHANGED <<pc, exit_code, cur_time, prev_time, prev_shader_load_time,
                   should_close, raytrace_mode, clock, emitter_vars, history_vars,
                   num_vertices_per_particle, shader_vars, disk_vars, gpu_vars,
                   twin>>

NextEmit ==
    \/ Emit_generate_particles
    \/ Emit_long_frame
    \/ Emit_retime

SpecEmit == InitEmit /\ [][NextEmit]_vars

-----------------------------------------------------------------------------
(* The accumulator, the emission count and the ring, checked under SpecEmit *)

\* 0 <= x < 1 for a float x = <<m, e>>, m odd or 0 and below 2^24
in_unit_interval(x) ==
    /\ x[1] >= 0
    /\ x[1] = 0 \/ (x[2] < 0 /\ (x[2] <= -F32Precision \/ x[1] < Pow2(-x[2])))

\* C3: after every call generate_particles(dt) with dt >= 0, in any
\* sequence of calls that starts with the accumulator at 0, the accumulator
\* a satisfies 0 <= a < 1.
C3_AccumulatorInUnitInterval ==
    in_unit_interval(particle_generation_accumulator)

\* Calls have emitted particles and left a fraction in the accumulator
C3_Witness ==
    /\ Len(calls) >= 2
    /\ Len(emitted) > 0
    /\ particle_generation_accumulator # F32Zero
    /\ in_unit_interval(particle_generation_accumulator)

\* Exact time: <<s, u>> is s + u / 2^29 seconds, 0 <= u < 2^29
exact_unit == Pow2(29)

\* The exact value of a float x >= 0 that is a multiple of 2^-29
exact(x) ==
    IF x[2] >= 0 THEN <<x[1] * Pow2(x[2]), 0>>
    ELSE <<x[1] \div Pow2(-x[2]), (x[1] % Pow2(-x[2])) * (exact_unit \div Pow2(-x[2]))>>

exact_sum(t, u) ==
    <<t[1] + u[1] + (t[2] + u[2]) \div exact_unit, (t[2] + u[2]) % exact_unit>>

\* The timesteps the Emitter was called with, in order
emitter_timesteps ==
    LET generates == SelectSeq(calls, LAMBDA c : c.op = "generate_particles")
    IN  [k \in 1 .. Len(generates) |-> generates[k].timestep]

\* The exact sum of the first n of the timesteps ts
RECURSIVE exact_total(_, _)
exact_total(ts, n) ==
    IF n = 0 THEN <<0, 0>> ELSE exact_sum(exact_total(ts, n - 1), exact(ts[n]))

\* floor(50 * t) for an exact time t, the product kept below 2^31
floor_50_times(t) ==
    50 * t[1] + (50 * (t[2] \div Pow2(14)) + (50 * (t[2] % Pow2(14))) \div Pow2(14))
                   \div (exact_unit \div Pow2(14))

\* The time is a whole number of 64ths of a second
whole_ticks(x) == x[1] = 0 \/ x[2] >= -TickLog2

nineteen_ms == <<10200547, -29>>

\* C4 as amended: each call emits floor(fl(a + fl(50 * dt))) particles, fl
\* rounding to binary32, and leaves that sum less the count; the cursor
\* advances by the count; when every timestep so far is a whole number of
\* 64ths of a second, so that nothing rounds, the particles emitted number
\* floor(50 * T) for the exact sum T of the timesteps, however T is split
\* into calls; and 21 calls of 0.019f emit 19 and leave the cursor at 19.
C4_EmissionCount ==
    [][LET ts == emitter_timesteps
       IN  \A dt \in {calls'[k].timestep : k \in (Len(calls) + 1) .. Len(calls')} :
              LET sum == F32Add(particle_generation_accumulator,
                                F32Mul(particles_per_second, dt))
                  n   == F32FloorInt(sum)
              IN  /\ Len(emitted') = Len(emitted) + n
                  /\ next_particle_index' = (next_particle_index + n) % num_particles
                  /\ particle_generation_accumulator' = F32Sub(sum, F32FromInt(n))
                  /\ (whole_ticks(dt) /\ \A k \in 1 .. Len(ts) : whole_ticks(ts[k])) =>
                        Len(emitted') =
                           floor_50_times(exact_sum(exact_total(ts, Len(ts)), exact(dt)))
                  /\ (Len(calls') = 21 /\ dt = nineteen_ms
                        /\ \A k \in 1 .. Len(ts) : ts[k] = nineteen_ms) =>
                        Len(emitted') = 19 /\ next_particle_index' = 19
      ]_vars

\* C4 as stated: the particles emitted number floor(50 * T) for the exact
\* sum T of the timesteps, from accumulator 0.
C4_ExactCount ==
    Len(emitted) = floor_50_times(exact_total(emitter_timesteps, Len(emitter_timesteps)))

\* Twenty-one calls of 0.019f have emitted 19 particles
C4_Witness ==
    /\ Len(calls) = 21
    /\ \A k \in 1 .. 21 : calls[k] = call("generate_particles", nineteen_ms)
    /\ Len(emitted) = 19
    /\ next_particle_index = 19

\* The sequence number, from 0, of the last emission that went to slot j
\* when m particles have been emitted, and -1 if none went there
last_emission(j, m) ==
    IF j >= m THEN -1 ELSE j + num_particles * ((m - 1 - j) \div num_particles)

\* C5: after any number of emissions, in any split across calls, slot j
\* holds the record of the most recent emission whose sequence number
\* (from 0) is congruent to j mod N, and a slot without such an emission
\* is as it was initialised; so after N + 5 emissions slots 0..4 hold the
\* five most recent records and slots 5..N-1 records of the first pass.
C5_RingOverwriteOrder ==
    \A j \in Slots :
       particles[j] = IF last_emission(j, Len(emitted)) < 0 THEN zero_particle
                      ELSE emitted[last_emission(j, Len(emitted)) + 1]

\* N + 5 particles have been emitted: slots 0..4 hold the last five of
\* them and slot 5 still holds the sixth
C5_Witness ==
    /\ Len(emitted) = num_particles + 5
    /\ \A j \in 0 .. 4 : particles[j] = emitted[num_particles + j + 1]
    /\ \A j \in 5 .. (num_particles - 1) : particles[j] = emitted[j + 1]
    /\ particles[0] # emitted[1]

-----------------------------------------------------------------------------
(* SpecOps: the operations on the particle system in any order and with    *)
(* any of the timesteps: Emitter, Integrator, Renderer, Watcher, key and   *)
(* resize callback.  A run starts with the program, or 18.8 days of        *)
(* emission later.                                                         *)

\* 1/64 s and 1 s
OpsTimesteps == {<<1, -6>>, <<1, 0>>}

MaxOps == 3

\* The generator before emission 81,282,965 (counted from 0), which 50
\* particles a second reach after 1,625,659.3 s
rng_late == <<48358, 60343>>

\* glfwGetTime() in ticks, 20 s later
clock_late == (1625659 + 20) * Pow2(TickLog2) + 20

\* The particle system after the frames that emitted 81,282,965 particles
\* and one more frame of 20 s, which has overwritten all the slots
InitParticlesLate ==
    \E st \in {emit_loop(num_particles,
                         [p |-> [i \in Slots |-> zero_particle],
                          i |-> 81282965 % num_particles,
                          s |-> rng_late, log |-> <<>>],
                         F32FromTicks(clock_late))} :
       /\ particles = st.p
       /\ rng_state = st.s
       /\ next_particle_index = st.i
       /\ particle_generation_accumulator = <<5, -3>>
       /\ clock = clock_late
       /\ emitted = st.log
       /\ calls = <<call("generate_particles", <<5, 2>>)>>

InitOps ==
    /\ InitGlobals
    /\ InitParticles \/ InitParticlesLate
    /\ pc = "while"
    /\ timestep = F32Zero
    /\ cwd_files = [f \in Files |-> good_file(1)]
    /\ parent_files = [f \in Files |-> NoFile]
    /\ budget = MaxOps

Ops_generate_particles ==
    /\ budget > 0
    /\ clock' = clock + 1
    /\ \E dt \in OpsTimesteps :
          /\ timestep' = dt
          /\ generate_particles(dt, F32FromTicks(clock'))
    /\ budget' = budget - 1
    /\ no_draw /\ no_key /\ no_load
    /\ UNCHANGED <<pc, exit_code, cur_time, prev_time, prev_shader_load_time,
                   should_close, raytrace_mode,
                   num_vertices_per_particle, shader_vars, disk_vars, gpu_vars,
                   twin>>

Ops_simulate_particles ==
    /\ budget > 0
    /\ \E dt \in OpsTimesteps :
          /\ timestep' = dt
          /\ simulate_particles(dt)
    /\ budget' = budget - 1
    /\ no_draw /\ no_key /\ no_load
    /\ UNCHANGED <<pc, exit_code, cur_time, prev_time, prev_shader_load_time,
                   should_close, raytrace_mode, clock, rng_state,
                   next_particle_index, particle_generation_accumulator, emitted,
                   num_vertices_per_particle, shader_vars, disk_vars, gpu_vars,
                   twin>>

Ops_reload_shaders_if_changed ==
    /\ budget > 0
    /\ reload_shaders_if_changed
    /\ budget' = budget - 1
    /\ no_draw /\ no_key
    /\ UNCHANGED <<main_vars, should_close, raytrace_mode, clock, emitter_vars,
                   history_vars, num_vertices_per_particle, disk_vars, gpu_vars,
                   twin>>

Ops_render_frame ==
    /\ budget > 0
    /\ render_frame(F32FromTicks(clock), TRUE, TRUE)
    /\ no_key
    /\ budget' = budget - 1
    /\ no_load
    /\ UNCHANGED <<main_vars, should_close, raytrace_mode, clock, emitter_vars,
                   history_vars, num_vertices_per_particle, shader_vars, disk_vars,
                   twin>>

Ops_key_callback ==
    /\ budget > 0
    /\ \E key \in Keys, action \in KeyActions : key_callback(key, action)
    /\ budget' = budget - 1
    /\ no_draw /\ no_load
    /\ UNCHANGED <<main_vars, clock, emitter_vars, history_vars,
                   num_vertices_per_particle, shader_vars, disk_vars, gpu_vars,
                   twin>>

Ops_window_resize_callback ==
    /\ budget > 0
    /\ window_resize_callback(F32FromTicks(clock), TRUE, TRUE)
    /\ no_key
    /\ budget' = budget - 1
    /\ no_load
    /\ UNCHANGED <<main_vars, should_close, raytrace_mode, clock, emitter_vars,
                   history_vars, num_vertices_per_particle, shader_vars, disk_vars,
                   twin>>

NextOps ==
    \/ Ops_generate_particles
    \/ Ops_simulate_particles
    \/ Ops_reload_shaders_if_changed
    \/ Ops_render_frame
    \/ Ops_key_callback
    \/ Ops_window_resize_callback

SpecOps == InitOps /\ [][NextOps]_vars

-----------------------------------------------------------------------------
(* The cursor, the slots never written and the angles, checked under SpecOps *)

\* The step is a call of the Emitter
emitter_step ==
    /\ Len(calls') = Len(calls) + 1
    /\ calls'[Len(calls')].op = "generate_particles"

\* C2: the cursor is always in 0 .. N-1; a step in which n particles are
\* emitted takes it from c to (c + n) mod N, one mod N for each emission;
\* and only a call of the Emitter emits or moves the cursor: no step of
\* the Integrator, the Renderer, the Watcher, the key or the resize
\* callback does.
C2_RingCursor ==
    [][/\ next_particle_index \in 0 .. (num_particles - 1)
       /\ next_particle_index' \in 0 .. (num_particles - 1)
       /\ next_particle_index' =
             (next_particle_index + Len(emitted') - Len(emitted)) % num_particles
       /\ ~emitter_step =>
             /\ next_particle_index' = next_particle_index
             /\ emitted' = emitted
      ]_vars

\* The cursor has gone from 965 round to 15 in a call that emitted 50
\* particles, and the Integrator has run since
C2_Witness ==
    /\ Len(emitted) = num_particles + 50
    /\ next_particle_index = 15
    /\ calls[Len(calls)].op = "simulate_particles"

\* The timesteps the Integrator was called with, in order
integrator_timesteps ==
    LET simulates == SelectSeq(calls, LAMBDA c : c.op = "simulate_particles")
    IN  [k \in 1 .. Len(simulates) |-> simulates[k].timestep]

\* The slots the Emitter has not written since the start of the program
never_emitted == {j \in Slots : j >= Len(emitted)}

\* k * (k - 1) / 2
triangular(k) == (k * (k - 1)) \div 2

\* C7 as amended: after k Integrator steps with one timestep dt (every
\* k >= 0) a slot the Emitter has never written has position.x = 0,
\* velocity.x = 0, velocity.y = k * dt * g and
\* position.y = dt * dt * g * k * (k - 1) / 2, with g = -40: each step
\* moves the slot by dt times the velocity of before the step.  (The
\* timesteps of the model are powers of two, so no operation rounds.)
C7_NeverEmittedSlot ==
    LET ts == integrator_timesteps
        k  == Len(ts)
    IN  (\A n \in 1 .. k : ts[n] = ts[1]) =>
           \A j \in never_emitted :
              LET dt == IF k = 0 THEN F32Zero ELSE ts[1]
              IN  /\ particles[j].velocity =
                        <<F32Zero, F32Mul(F32FromInt(k), F32Mul(dt, gravity))>>
                  /\ particles[j].position =
                        <<F32Zero, F32Mul(F32FromInt(triangular(k)),
                                          F32Mul(dt, F32Mul(dt, gravity)))>>

\* C7 as stated: such a slot has position (0, 0), velocity.x = 0 and
\* velocity.y = k * dt * g.
C7_NeverEmittedSlotAtOrigin ==
    LET ts == integrator_timesteps
        k  == Len(ts)
    IN  (\A n \in 1 .. k : ts[n] = ts[1]) =>
           \A j \in never_emitted :
              LET dt == IF k = 0 THEN F32Zero ELSE ts[1]
              IN  /\ particles[j].velocity =
                        <<F32Zero, F32Mul(F32FromInt(k), F32Mul(dt, gravity))>>
                  /\ particles[j].position = <<F32Zero, F32Zero>>

\* Three Integrator steps of 1 s have taken the last slot, never written,
\* to y = -120 with velocity -120
C7_Witness ==
    /\ calls = <<call("simulate_particles", <<1, 0>>),
                 call("simulate_particles", <<1, 0>>),
                 call("simulate_particles", <<1, 0>>)>>
    /\ (num_particles - 1) \in never_emitted
    /\ particles[num_particles - 1].position = <<F32Zero, <<-15, 3>>>>
    /\ particles[num_particles - 1].velocity = <<F32Zero, <<-15, 3>>>>

F32Abs(x) == <<Abs(x[1]), x[2]>>

\* The last call was one of the Integrator
integrated == calls # <<>> /\ calls[Len(calls)].op = "simulate_particles"

\* C8 as amended: in every state, after any interleaving of Emitter and
\* Integrator calls, every slot's angle satisfies |angle| <= two_pi: the
\* Emitter writes an angle in [0, two_pi], two_pi itself when the random
\* fraction rounds to 1, and after a call of the Integrator, which takes
\* the remainder, |angle| < two_pi.
C8_AngleBound ==
    \A a \in {particles[j].angle : j \in Slots} :
       /\ ~F32Less(two_pi, F32Abs(a))
       /\ integrated => F32Less(F32Abs(a), two_pi)

\* C8 as stated: in every state every slot's angle satisfies
\* |angle| < two_pi.
C8_AngleBelowTwoPi ==
    \A a \in {particles[j].angle : j \in Slots} : F32Less(F32Abs(a), two_pi)

\* Emission 81,283,965 has written the angle two_pi to slot 965
C8_Witness ==
    /\ particles[965].angle = two_pi
    /\ Len(emitted) > num_particles
    /\ emitted[num_particles + 1] = particles[965]

-----------------------------------------------------------------------------
(* The draw call, checked under Spec *)

\* The step is an execution of render_frame, in the frame loop or in the
\* resize callback (the step of event polling in which time passes)
render_step ==
    \/ pc = "render_frame" /\ pc' = "glfwSwapBuffers"
    \/ pc = "glfwPollEvents" /\ pc' = pc /\ clock' # clock

\* The draws the claim expects of render_frame when each star has
\* vertices vertices
expected_draws(vertices) ==
    IF ~raytrace_mode
    THEN <<[call |-> "glDrawArraysInstanced", program |-> particle_shader_program,
            count |-> vertices, instances |-> 1000]>>
    ELSE <<[call |-> "glDrawArrays", program |-> raytrace_shader_program,
            count |-> 6, instances |-> 1]>>

\* C6 as amended: every execution of render_frame, from the main loop or
\* from the resize callback, issues exactly one draw call: an instanced
\* draw of 30 vertices (6 for each of the 5 points of the star) x 1000
\* instances with the rasterise program when raytrace_mode is false, a
\* non-instanced draw of 6 vertices with the ray-trace program when it is
\* true; the instance count is 1000 however many particles have been
\* emitted.  No other step draws.
C6_DrawCallShape ==
    [][IF render_step THEN draw_calls' = expected_draws(30) ELSE draw_calls' = <<>>]_vars

\* C6 as stated: the instanced draw is of 60 vertices x 1000 instances.
C6_DrawCallShape60 ==
    [][render_step => draw_calls' = expected_draws(60)]_vars

\* A frame has just been drawn in rasterise mode, 30 vertices x 1000
\* instances, when fewer than 1000 particles had been emitted
C6_Witness ==
    /\ pc = "glfwSwapBuffers"
    /\ ~raytrace_mode
    /\ Len(emitted) \in 1 .. 999
    /\ draw_calls = <<[call |-> "glDrawArraysInstanced",
                       program |-> particle_shader_program,
                       count |-> 30, instances |-> 1000]>>
    /\ particle_shader_program # 0

-----------------------------------------------------------------------------
(* SpecDet: two runs of the program's Emitter side by side.  Both start    *)
(* with the seed and are called with the same timesteps; each reads its    *)
(* own clock.  The second run is kept in twin.                             *)

\* 1/64 s and 1/4 s
DetTimesteps == {<<1, -6>>, <<1, -2>>}

\* What a clock may have gone on by between two calls, in ticks
DetClockSteps == {1, 2}

MaxDetCalls == 3

InitDet ==
    /\ InitProgram
    /\ pc = "generate_particles"
    /\ timestep = F32Zero
    /\ cwd_files = [f \in Files |-> NoFile]
    /\ parent_files = [f \in Files |-> NoFile]
    /\ budget = MaxDetCalls

InitTwin ==
    [p |-> [i \in Slots |-> zero_particle], i |-> 0, s |-> rng_seed, a |-> F32Zero,
     log |-> <<>>, clock |-> 0]

\* The second run starts
Det_start ==
    /\ twin = <<>>
    /\ twin' = InitTwin
    /\ no_draw /\ no_key /\ no_load
    /\ UNCHANGED <<main_vars, should_close, raytrace_mode, clock, emitter_vars,
                   history_vars, num_vertices_per_particle, shader_vars, disk_vars,
                   gpu_vars, budget>>

\* Both runs make their next call, with one timestep
Det_generate_particles ==
    /\ twin # <<>>
    /\ budget > 0
    /\ \E dt \in DetTimesteps, d1 \in DetClockSteps, d2 \in DetClockSteps :
          /\ timestep' = dt
          /\ clock' = clock + d1
          /\ generate_particles(dt, F32FromTicks(clock'))
          /\ \E e \in {generate(twin, dt, F32FromTicks(twin.clock + d2))} :
                twin' = [p |-> e.p, i |-> e.i, s |-> e.s, a |-> e.a, log |-> e.log,
                         clock |-> twin.clock + d2]
    /\ budget' = budget - 1
    /\ no_draw /\ no_key /\ no_load
    /\ UNCHANGED <<pc, exit_code, cur_time, prev_time, prev_shader_load_time,
                   should_close, raytrace_mode, num_vertices_per_particle,
                   shader_vars, disk_vars, gpu_vars>>

NextDet ==
    \/ Det_start
    \/ Det_generate_particles

SpecDet == InitDet /\ [][NextDet]_vars

-----------------------------------------------------------------------------
(* C9: determinism of the emitted particles                                *)

\* A record without its timestamp
untimed(q) == [q EXCEPT !.creation_time = F32Zero]

untimed_log(log) == [k \in 1 .. Len(log) |-> untimed(log[k])]

\* The Emitter's state of the first run, as twin holds the second run's
first_run ==
    [p |-> particles, i |-> next_particle_index, s |-> rng_state,
     a |-> particle_generation_accumulator, log |-> emitted, clock |-> clock]

\* What the two runs agree on whatever their clocks read
same_but_for_clock ==
    /\ Len(emitted) = Len(twin.log)
    /\ untimed_log(emitted) = untimed_log(twin.log)
    /\ next_particle_index = twin.i
    /\ rng_state = twin.s
    /\ particle_generation_accumulator = twin.a
    /\ [i \in Slots |-> untimed(particles[i])] = [i \in Slots |-> untimed(twin.p[i])]

\* A call of both runs in which their clocks read the same
same_reading ==
    /\ twin # <<>>
    /\ Len(calls') = Len(calls) + 1
    /\ clock' = twin'.clock

\* C9: two runs that start from the seed and are called with the same
\* timesteps emit the same number of particles, into the same slots, with the
\* same position, velocity, angle, spin and size, whatever their clocks read;
\* and a call in which their clocks read the same keeps identical runs
\* identical, timestamps included.
C9_DeterministicButForClock ==
    /\ [](twin # <<>> => same_but_for_clock)
    /\ [][same_reading /\ first_run = twin => first_run' = twin']_vars

\* C9 as stated: the two runs emit identical particle records
C9_IdenticalRecords ==
    twin # <<>> => emitted = twin.log

\* Both runs have emitted, and a particle's two records differ in the timestamp
\* alone
C9_Witness ==
    /\ twin # <<>>
    /\ Len(emitted) >= 12
    /\ Len(twin.log) = Len(emitted)
    /\ \E k \in 1 .. Len(emitted) :
          /\ emitted[k].creation_time # twin.log[k].creation_time
          /\ untimed(emitted[k]) = untimed(twin.log[k])
          /\ emitted[k].velocity # <<F32Zero, F32Zero>>

-----------------------------------------------------------------------------
(* C11: the rate limit of the Watcher, checked under Spec *)

\* The step of a loop turn that holds the rate-limited Watcher check
watcher_step == pc = "reload" /\ pc' = "render_frame"

\* C11 as amended: in each turn of the main loop, with cur_time the clock
\* sample of the turn, the Watcher check runs if and only if cur_time -
\* prev_shader_load_time > 0.5 s, strictly; prev_shader_load_time becomes
\* cur_time exactly when a check runs; a check loads exactly when it finds a
\* newer file; and no other step of the loop checks, loads or moves
\* prev_shader_load_time.  So two consecutive checks are more than 0.5 s
\* apart.
C11_WatcherRateLimit ==
    [][IF watcher_step
       THEN IF cur_time - prev_shader_load_time > half_second
            THEN /\ prev_shader_load_time' = cur_time
                 /\ prev_shader_load_time' - prev_shader_load_time > half_second
                 /\ (load_attempts' # <<>>) = some_file(newer)
            ELSE /\ prev_shader_load_time' = prev_shader_load_time
                 /\ load_attempts' = <<>>
                 /\ UNCHANGED shader_vars
       ELSE /\ prev_shader_load_time' = prev_shader_load_time
            /\ pc # "init_graphics" => load_attempts' = <<>> /\ UNCHANGED shader_vars
      ]_vars

\* C11 as stated: the check runs, and sets prev_shader_load_time, if and only
\* if cur_time - prev_shader_load_time >= 0.5 s
C11_CheckAtHalfSecond ==
    [][watcher_step =>
          ((prev_shader_load_time' = cur_time) =
              (cur_time - prev_shader_load_time >= half_second))
      ]_vars

\* A turn that came more than half a second after the last check has just
\* checked, found a newer file and loaded
C11_Witness ==
    /\ pc = "render_frame"
    /\ prev_shader_load_time = cur_time
    /\ cur_time > half_second
    /\ load_attempts # <<>>
    /\ Len(calls) >= 4

-----------------------------------------------------------------------------
(* C12: files that are missing at a Watcher check, checked under SpecReload *)

\* File f exists at neither ./<name> nor ../<name>
missing(f) == ~cwd_files[f].present /\ ~parent_files[f].present

\* The copy of f the two-path search comes upon is not newer than the mtime
\* stored for f
unmodified(f) ==
    IF cwd_files[f].present THEN cwd_files[f].mtime <= stored_mtime(f)
    ELSE parent_files[f].mtime <= stored_mtime(f)

\* C12: at a Watcher check at which some shader file exists at neither path
\* and every file that does exist is unmodified, no load is attempted, and
\* the stored mtimes, both program handles and the live program objects are
\* left as they were.
C12_MissingFileUnchanged ==
    [][(/\ pc = "reload" /\ pc' = "render_frame"
        /\ \E f \in Files : missing(f)
        /\ \A f \in Files : ~missing(f) => unmodified(f))
       => load_attempts' = <<>> /\ UNCHANGED shader_vars
      ]_vars

\* A Watcher check has just run without a load while a file that was loaded
\* before is missing at both paths, and the pipeline keeps its program
C12_Witness ==
    /\ pc = "render_frame"
    /\ load_attempts = <<>>
    /\ \E f \in Files : missing(f) /\ stored_mtime(f) # 0
    /\ particle_shader_program # 0
    /\ raytrace_shader_program # 0

-----------------------------------------------------------------------------
(* C13: what a resize callback does to the frame, checked under Spec *)

\* glfwPollEvents() delivers a resize
resize_step ==
    pc = "glfwPollEvents" /\ pc' = "glfwPollEvents" /\ key_events' = <<>>

\* The step of the loop that samples the clock
sample_step == pc = "while" /\ pc' = "generate_particles"

\* C13: a resize callback renders once (one draw call; what it uploads are
\* the particles as they are and the time of its own clock reading) and
\* leaves unchanged the particle
\* array, the ring cursor, the accumulator, the generator, the locals of
\* main (cur_time, prev_time, prev_shader_load_time, timestep), the stored
\* mtimes, the program handles and raytrace_mode; it calls neither Emitter
\* nor Integrator nor Loader.  The next timestep of the loop is the time from
\* the last sample of the loop to the new one, resizes in between included.
C13_ResizeFrameEffect ==
    [][/\ resize_step =>
             /\ draw_calls' = <<draw_call>>
             /\ particle_buffer_data' \in
                   {particle_buffer_data, [defined |-> TRUE, particles |-> particles]}
             /\ uniform_buffer_data' \in
                   {uniform_buffer_data, [defined |-> TRUE, time |-> F32FromTicks(clock')]}
             /\ UNCHANGED <<emitter_vars, history_vars, main_vars, shader_vars,
                            raytrace_mode, should_close, num_vertices_per_particle>>
             /\ load_attempts' = <<>>
       /\ sample_step =>
             /\ prev_time = cur_time
             /\ timestep' = F32FromTicks(clock' - prev_time)
             /\ prev_time' = clock'
      ]_vars

\* A resize callback has just rendered, later than the last clock sample of
\* the loop, particles that the loop emitted
C13_Witness ==
    /\ pc = "glfwPollEvents"
    /\ draw_calls # <<>>
    /\ clock > cur_time
    /\ emitted # <<>>
    /\ uniform_buffer_data = [defined |-> TRUE, time |-> F32FromTicks(clock)]
    /\ prev_time = cur_time

-----------------------------------------------------------------------------
(* C14: the order of the steps of a loop turn, checked under Spec *)

\* The steps of main in the order it takes them, each with the next
frame_order ==
    {<<"while", "generate_particles">>, <<"generate_particles", "simulate_particles">>,
     <<"simulate_particles", "reload">>, <<"reload", "render_frame">>,
     <<"render_frame", "glfwSwapBuffers">>, <<"glfwSwapBuffers", "glfwPollEvents">>,
     <<"glfwPollEvents", "while">>}

\* How many particles the first j turns of the loop emitted.  The timesteps
\* of Spec are whole ticks, so that no sum rounds.
emitted_by(j) == floor_50_times(exact_total(emitter_timesteps, j))

\* The turn that emitted the k-th record
frame_of(k) == CHOOSE j \in 1 .. Len(emitter_timesteps) :
                  emitted_by(j - 1) < k /\ k <= emitted_by(j)

\* Record q after the Integrator steps of turns j .. n
RECURSIVE after_frames(_, _, _, _)
after_frames(q, ts, j, n) ==
    IF j > n THEN q ELSE after_frames(simulate_one(q, ts[j]), ts, j + 1, n)

\* Every turn so far called the Emitter and then the Integrator, with one
\* timestep
emit_then_integrate ==
    \A k \in 1 .. Len(calls) :
       IF k % 2 = 1
       THEN calls[k].op = "generate_particles"
       ELSE /\ calls[k].op = "simulate_particles"
            /\ calls[k].timestep = calls[k - 1].timestep

\* C14: the steps of every loop turn run in the order clock sample, Emitter,
\* Integrator, rate-limited Watcher, Renderer, present, poll events, Emitter
\* and Integrator being given the timestep of the sample; so when a frame is
\* rendered a particle emitted in it has position = dt * v0 and velocity.y =
\* v0.y + dt * g, and a particle emitted k turns ago has received the k
\* Integrator steps of those turns.
C14_FrameOrdering ==
    /\ [](pc = "render_frame" =>
            /\ emit_then_integrate
            /\ Len(calls) % 2 = 0
            /\ calls # <<>> => calls[Len(calls)].timestep = timestep
            /\ Len(emitted) = emitted_by(Len(emitter_timesteps))
            /\ \A k \in 1 .. Len(emitted) :
                  LET n  == Len(emitter_timesteps)
                      v0 == emitted[k].velocity
                      q  == particles[k - 1]
                  IN  /\ q = after_frames(emitted[k], emitter_timesteps, frame_of(k), n)
                      /\ frame_of(k) = n =>
                            /\ q.position = <<F32Mul(timestep, v0[1]),
                                              F32Mul(timestep, v0[2])>>
                            /\ q.velocity = <<v0[1],
                                              F32Add(v0[2], F32Mul(timestep, gravity))>>)
    /\ [][/\ (pc \in {o[1] : o \in frame_order} /\ pc' # pc /\ pc' # "return")
                => <<pc, pc'>> \in frame_order
          /\ sample_step => timestep' = F32FromTicks(clock' - prev_time)
          /\ pc = "generate_particles" =>
                calls' = Append(calls, call("generate_particles", timestep))
          /\ pc = "simulate_particles" =>
                calls' = Append(calls, call("simulate_particles", timestep))
          /\ pc = "render_frame" => draw_calls' # <<>>
         ]_vars

\* The third frame is about to be rendered; the first turn and the third
\* emitted particles
C14_Witness ==
    /\ pc = "render_frame"
    /\ Len(calls) = 6
    /\ emitted_by(1) >= 1
    /\ emitted_by(3) > emitted_by(2)
    /\ particles[0].position # <<F32Zero, F32Zero>>

-----------------------------------------------------------------------------
(* C15: a buffer that cannot be mapped, checked under Spec *)

\* The Renderer step of a loop turn
loop_render_step == pc = "render_frame" /\ pc' = "glfwSwapBuffers"

\* C15: whatever glMapBufferRange returns for the two buffers, render_frame
\* leaves each buffer either with this frame's data or, the copy skipped,
\* with exactly what the GPU saw before; a skipped copy of one buffer does
\* not keep the other from being written; the draw call of the mode is
\* issued all the same; and particles, emitter state, programs and mode are
\* unchanged.
C15_MapFailureNonFatal ==
    [][loop_render_step =>
          /\ uniform_buffer_data' \in
                {uniform_buffer_data, [defined |-> TRUE, time |-> F32FromTicks(clock)]}
          /\ particle_buffer_data' \in
                {particle_buffer_data, [defined |-> TRUE, particles |-> particles]}
          /\ draw_calls' = <<draw_call>>
          /\ UNCHANGED <<emitter_vars, history_vars, shader_vars, raytrace_mode,
                         should_close, exit_code, clock>>
      ]_vars

\* A frame has just been drawn whose uniform buffer could not be mapped: the
\* GPU still sees the time of an earlier frame, next to this frame's particles
C15_Witness ==
    /\ pc = "glfwSwapBuffers"
    /\ draw_calls # <<>>
    /\ uniform_buffer_data.defined
    /\ uniform_buffer_data.time # F32FromTicks(clock)
    /\ particle_buffer_data = [defined |-> TRUE, particles |-> particles]
    /\ emitted # <<>>

-----------------------------------------------------------------------------
(* C16: key events, checked under Spec *)

\* glfwPollEvents() delivers a key event
key_step == key_events' # <<>>

pressed(e, key) == e.key = key /\ e.action = "GLFW_PRESS"

\* C16: a key event flips raytrace_mode exactly when it is a press of R and
\* sets the close request exactly when it is a press of Escape; a release or
\* a repeat, and every other key, change neither; and no key event changes
\* the particles, the Emitter's state, the programs and stored mtimes, the
\* GPU buffers or main's locals.  So two presses of R restore the mode.
C16_KeyHandling ==
    [][key_step =>
          /\ Len(key_events') = 1
          /\ raytrace_mode' = IF pressed(key_events'[1], "GLFW_KEY_R")
                              THEN ~raytrace_mode ELSE raytrace_mode
          /\ should_close' = IF pressed(key_events'[1], "GLFW_KEY_ESCAPE")
                             THEN TRUE ELSE should_close
          /\ UNCHANGED <<emitter_vars, history_vars, shader_vars, gpu_vars,
                         main_vars, clock, num_vertices_per_particle>>
          /\ draw_calls' = <<>> /\ load_attempts' = <<>>
      ]_vars

\* R has just been pressed for the second time: the mode is the one the
\* program started with
C16_Witness ==
    /\ pc = "glfwPollEvents"
    /\ key_events # <<>>
    /\ pressed(key_events[1], "GLFW_KEY_R")
    /\ ~raytrace_mode
    /\ budget = MaxEvents - 2
    /\ emitted # <<>>

-----------------------------------------------------------------------------
(* C17: shutdown, checked under Spec *)

\* A step that runs the Emitter, the Integrator, a load or the Renderer
frame_work ==
    \/ calls' # calls
    \/ draw_calls' # <<>>
    \/ load_attempts' # <<>>
    \/ prev_shader_load_time' # prev_shader_load_time

-----------------------------------------------------------------------------
(* C18: failures of the initialisation, checked under Spec *)

\* The three initialisations of main that can fail, in order, and what
\* follows the last
init_order ==
    {<<"glfwInit", "glfwCreateWindow">>, <<"glfwCreateWindow", "gladLoadGL">>,
     <<"gladLoadGL", "init_graphics">>}

\* Nothing of init_graphics or of the frame loop has run
nothing_run ==
    /\ calls = <<>> /\ emitted = <<>>
    /\ next_particle_index = 0 /\ rng_state = rng_seed
    /\ particle_generation_accumulator = F32Zero
    /\ ~uniform_buffer_data.defined /\ ~particle_buffer_data.defined
    /\ draw_calls = <<>> /\ load_attempts = <<>>
    /\ gl_programs = {}
    /\ particle_shader_program = 0 /\ raytrace_shader_program = 0
    /\ cur_time = 0 /\ prev_shader_load_time = 0

\* C18: glfwInit, glfwCreateWindow and gladLoadGL each either succeed, and
\* main goes on to the next, or fail, and main returns -1 at once; when main
\* has returned -1 no step of the frame loop and no load has ever run; and
\* init_graphics goes on to the loop with exit code untouched whatever its
\* shader loads come to.
C18_FatalInitialisation ==
    /\ [](exit_code = -1 => pc = "return" /\ nothing_run)
    /\ [](pc \in {o[1] : o \in init_order} => nothing_run /\ exit_code = 0)
    /\ [][/\ (pc \in {o[1] : o \in init_order} /\ pc' # pc) =>
                \/ <<pc, pc'>> \in init_order /\ exit_code' = 0
                \/ pc' = "return" /\ exit_code' = -1
          /\ pc = "init_graphics" =>
                /\ pc' = "while"
                /\ exit_code' = exit_code
                /\ Len(load_attempts') = 2
         ]_vars

\* main has returned -1 although the shader files were there to load
C18_Witness ==
    /\ pc = "return"
    /\ exit_code = -1
    /\ nothing_run
    /\ \A f \in Files : cwd_files[f].present

-----------------------------------------------------------------------------
(* C19: reload attempts come to rest, checked under SpecReload *)

\* A step that loads: init_graphics, or a Watcher check that found a change
load_step == load_attempts' # <<>>

\* A Watcher check would find nothing to reload: no file that the searches
\* find is newer than the mtime stored for it
at_rest == ~some_file(newer)

\* C19: a load, whether every program linked or a source was missing, did
\* not compile or did not link, stores the mtime of every file it found, so
\* that right after it no file is newer than its stored mtime; this stays so
\* while no shader file is saved, created or removed; and a Watcher check in
\* such a state attempts no load.  So after a reload no later check reloads
\* until the disk changes.
C19_ReloadsStabilise ==
    [][/\ load_step =>
             /\ at_rest'
             /\ \A f \in Files :
                   found_file(f).present => stored_mtime(f)' = found_file(f).mtime
       /\ (pc # "init_graphics" /\ at_rest /\ UNCHANGED disk_vars) =>
             at_rest' /\ ~load_step
      ]_vars

\* A Watcher check has just run without a load after an attempt that failed:
\* a source that does not compile or link is on disk, with the mtime stored
C19_Witness ==
    /\ pc = "render_frame"
    /\ load_attempts = <<>>
    /\ \E f \in Files :
          /\ found_file(f).present
          /\ found_file(f).text # "ok"
          /\ found_file(f).mtime = MaxMtime
          /\ stored_mtime(f) = MaxMtime

-----------------------------------------------------------------------------
(* C20: a saved shader is picked up, checked under SpecReload *)

\* The two pipelines, each by its vertex and its fragment file
Pipelines == {<<VertexFile, FragmentFile>>, <<QuadFile, RaytraceFile>>}

\* Both stage sources of pipeline p are found, compile and link
loadable(p) ==
    \A f \in {p[1], p[2]} : found_file(f).present /\ found_file(f).text = "ok"

\* A file of pipeline p is found with an mtime strictly greater than the
\* stored one
saved_newer(p) ==
    \E f \in {p[1], p[2]} :
       found_file(f).present /\ found_file(f).mtime > stored_mtime(f)

\* C20: at the first Watcher check that finds a file of a pipeline saved with
\* an mtime strictly greater than the stored one, both stage sources of the
\* pipeline being present and compiling and linking, the pipeline's active
\* handle is replaced by a newly linked program, which is live, the program
\* it had is deleted (the live program objects are again just the ones the
\* pipelines hold, no more of them than before; a name that was freed may be
\* given out again), and the mtimes of both sources are stored.
C20_HotReloadApplied ==
    [][\A p \in Pipelines :
          (pc = "reload" /\ pc' = "render_frame" /\ saved_newer(p) /\ loadable(p)) =>
             /\ active_program(p[1])' # active_program(p[1])
             /\ active_program(p[1])' # 0
             /\ active_program(p[1])' \in gl_programs'
             /\ gl_programs' = {active_program(q[1])' : q \in Pipelines} \ {0}
             /\ Cardinality(gl_programs') <= Cardinality(gl_programs) + 1
             /\ active_program(p[1]) # 0 =>
                   Cardinality(gl_programs') <= Cardinality(gl_programs)
             /\ \A f \in {p[1], p[2]} : stored_mtime(f)' = found_file(f).mtime
             /\ \E k \in 1 .. Len(load_attempts') :
                   load_attempts'[k] = [vertex |-> p[1], before |-> active_program(p[1]),
                                        outcome |-> "linked"]
      ]_vars

\* A Watcher check has just replaced the program of the ray-trace pipeline,
\* which had one, by a new one and deleted the old
C20_Witness ==
    /\ pc = "render_frame"
    /\ Len(load_attempts) = 2
    /\ load_attempts[2].outcome = "linked"
    /\ load_attempts[2].before # 0
    /\ raytrace_shader_program # load_attempts[2].before
    /\ raytrace_shader_program \in gl_programs
    /\ gl_programs = {particle_shader_program, raytrace_shader_program} \ {0}
    /\ found_file(RaytraceFile).mtime = MaxMtime
    /\ raytrace_shader_mtime = MaxMtime

-----------------------------------------------------------------------------
(* C21: creation times against the time of the frame, checked under Spec *)

\* x <= y
F32LessEq(x, y) == ~F32Less(y, x)

\* The creation times of the records of an array
creation_times(p) == {p[i].creation_time : i \in Slots}

\* What the shaders of a draw see: no particle is younger than nothing
age_never_negative(uniforms, buffer) ==
    \A c \in creation_times(buffer.particles) : F32LessEq(c, uniforms.time)

\* C21 as amended: at every render_frame, of the loop or of a resize, every
\* slot's creation_time is <= the time render_frame computes for its
\* uniform block; so whenever the uniform buffer is mapped and that time is
\* uploaded, no age the shaders see is negative, while after a uniform map
\* that failed the shaders see the time of an earlier frame, which may lie
\* before the creation of this frame's particles.  Never-emitted slots have
\* creation_time 0.
C21_CreationTimeConsistency ==
    [][render_step =>
             LET time == F32FromTicks(clock')
             IN  /\ \A j \in never_emitted : particles[j].creation_time = F32Zero
                 /\ \A c \in creation_times(particles) : F32LessEq(c, time)
                 /\ uniform_buffer_data' \in
                       {uniform_buffer_data, [defined |-> TRUE, time |-> time]}
                 /\ (uniform_buffer_data' = [defined |-> TRUE, time |-> time]
                        /\ particle_buffer_data'.defined)
                    => age_never_negative(uniform_buffer_data', particle_buffer_data')
      ]_vars

\* C21 as stated: at every render no age the shaders see is negative
C21_AgeNeverNegative ==
    [][(render_step /\ uniform_buffer_data'.defined /\ particle_buffer_data'.defined)
          => age_never_negative(uniform_buffer_data', particle_buffer_data')
      ]_vars

\* A frame has just been drawn with its time uploaded, and shows particles
\* created at that time and slots never written
C21_Witness ==
    /\ pc = "glfwSwapBuffers"
    /\ draw_calls # <<>>
    /\ uniform_buffer_data = [defined |-> TRUE, time |-> F32FromTicks(clock)]
    /\ particle_buffer_data = [defined |-> TRUE, particles |-> particles]
    /\ emitted # <<>>
    /\ emitted[Len(emitted)].creation_time = uniform_buffer_data.time
    /\ Len(calls) >= 4
    /\ never_emitted # {}

-----------------------------------------------------------------------------
(* C22: what a call of the Integrator changes, checked under SpecOps *)

\* The step is a call simulate_particles(dt)
integrator_step(dt) ==
    calls' = Append(calls, [op |-> "simulate_particles", timestep |-> dt])

\* C22: a call simulate_particles(dt) gives every one of the N slots
\* position + dt * velocity, with the velocity of before the call,
\* velocity.y + dt * g and fmod(angle + dt * spin, two_pi), in binary32; it
\* leaves velocity.x, spin, size and creation_time of every slot unchanged,
\* and the ring cursor, the accumulator, the generator and the records
\* emitted so far as well.
C22_IntegratorFrame ==
    [][\A dt \in OpsTimesteps :
          integrator_step(dt) =>
             /\ \A i \in Slots :
                   LET q == particles[i]
                       r == particles'[i]
                   IN  /\ r.position[1] = F32Add(q.position[1], F32Mul(dt, q.velocity[1]))
                       /\ r.position[2] = F32Add(q.position[2], F32Mul(dt, q.velocity[2]))
                       /\ r.velocity[2] = F32Add(q.velocity[2], F32Mul(dt, <<-5, 3>>))
                       /\ r.angle = F32Fmod(F32Add(q.angle, F32Mul(dt, q.spin)), two_pi)
                       /\ r.velocity[1] = q.velocity[1]
                       /\ r.spin = q.spin
                       /\ r.size = q.size
                       /\ r.creation_time = q.creation_time
                       /\ DOMAIN r = DOMAIN q
             /\ UNCHANGED <<next_particle_index, particle_generation_accumulator,
                            rng_state, emitted, shader_vars, gpu_vars, raytrace_mode>>
      ]_vars

\* The Integrator has just stepped an array that is full of emitted
\* particles: one that moves sideways and spins has left the origin, its
\* velocity.x, spin, size and creation_time those it was emitted with
C22_Witness ==
    /\ integrated
    /\ Len(emitted) >= num_particles
    /\ LET q == emitted[Len(emitted)]
           r == particles[(next_particle_index + num_particles - 1) % num_particles]
       IN  /\ r.position # q.position
           /\ r.velocity[2] # q.velocity[2]
           /\ r.velocity[1] = q.velocity[1] /\ q.velocity[1] # F32Zero
           /\ r.spin = q.spin /\ q.spin # F32Zero
           /\ r.size = q.size
           /\ r.creation_time = q.creation_time /\ q.creation_time # F32Zero

-----------------------------------------------------------------------------
=============================================================================
